---- MODULE Spec2Model ----
(***************************************************************************)
(* Suffix-tree read mapper (birc-gsa-solutions/st-python).                 *)
(*                                                                         *)
(* Part 1 models src/src/subseq.py (class SubSeq) operation by operation.  *)
(* Part 2 models the suffix-tree engine (alphabet mapping, node model,     *)
(* naive and McCreight construction, search) that st_test.py and main.py   *)
(* import from st.py / alphabet.py; every edge label of the tree is a      *)
(* SubSeq and is read and sliced through the operators of part 1.          *)
(***************************************************************************)
EXTENDS Integers, Sequences, FiniteSets, TLC

VARIABLES
    mode,       \* which of the three state machines this behaviour runs
    sv,         \* SubSeq machine: the current view (owner, start, stop)
    sop,        \* SubSeq machine: the last operation applied and its outcome
    s,          \* tree machine: the raw input string
    nT,         \* tree machine: node arena of the naive construction
    ni,         \* tree machine: next suffix the naive construction inserts
    mT,         \* tree machine: node arena of McCreight's construction
    mi,         \* tree machine: next suffix McCreight's construction inserts
    curr_leaf,  \* tree machine: McCreight's most recently attached leaf
    unsetUsed,  \* tree machine: a suffix link was followed while unset
    q,          \* tree machine: the last query (pattern and answers)
    inner1,     \* node machine: first Inner node under comparison
    inner2      \* node machine: second Inner node under comparison

vars == <<mode, sv, sop, s, nT, ni, mT, mi, curr_leaf, unsetUsed, q, inner1, inner2>>

seqVars == <<sv, sop>>
treeVars == <<s, nT, ni, mT, mi, curr_leaf, unsetUsed, q>>
nodeVars == <<inner1, inner2>>

(***************************************************************************)
(* Bounds of the model.                                                    *)
(***************************************************************************)
MaxOwner == 3      \* longest owner sequence of the SubSeq machine
MaxIdx == 3        \* slice bounds and indices range over -MaxIdx..MaxIdx
NumSyms == 2       \* number of distinct raw symbols
MaxLen == 4        \* longest raw input string of the tree machine
MaxPat == 3        \* longest query pattern

RECURSIVE SeqsUpTo(_, _)
SeqsUpTo(S, n) ==
    IF n = 0 THEN {<<>>}
    ELSE LET shorter == SeqsUpTo(S, n - 1)
         IN  shorter \cup {Append(t, a) : t \in {u \in shorter : Len(u) = n - 1}, a \in S}

Min(a, b) == IF a < b THEN a ELSE b

(***************************************************************************)
(* Part 1: SubSeq (src/src/subseq.py).                                     *)
(*                                                                         *)
(* Optional[int] is modelled as a sequence: <<>> is None, <<k>> is k.      *)
(* An operation that can raise returns [ok, val]: ok = FALSE and val the   *)
(* exception's name when it raises.                                        *)
(***************************************************************************)
None == <<>>
Some(k) == <<k>>

Ok(v) == [ok |-> TRUE, val |-> v]
Raise(e) == [ok |-> FALSE, val |-> e]

\* Indexing of the wrapped Python sequence, self._x[k]: a negative k counts
\* from the end, and k outside -len..len-1 raises IndexError.
PyIndex(x, k) ==
    IF 0 <= k /\ k < Len(x) THEN Ok(x[k + 1])
    ELSE IF k < 0 /\ k + Len(x) >= 0 THEN Ok(x[k + Len(x) + 1])
    ELSE Raise("IndexError")

\* Bug variant of fix_index: a missing stop defaults to len(x) - 1.
fix_index_stop_short(n, start, stop) ==
    LET start0 == IF start = None THEN 0 ELSE start[1]
        stop0  == IF stop = None THEN (IF n > 0 THEN n - 1 ELSE 0) ELSE stop[1]
        start1 == IF start0 < 0 THEN start0 + n ELSE start0
        stop1  == IF stop0 < 0 THEN stop0 + n ELSE stop0
    IN  IF ~(start1 <= stop1) THEN Raise("AssertionError")
        ELSE IF ~(0 <= start1 /\ start1 <= n) THEN Raise("AssertionError")
        ELSE IF ~(0 <= stop1 /\ stop1 <= n) THEN Raise("AssertionError")
        ELSE Ok(<<start1, stop1>>)

\* SubSeq._fix_index(x, start, stop); n is len(x).
fix_index(n, start, stop) ==
    LET start0 == IF start = None THEN 0 ELSE start[1]
        stop0  == IF stop = None THEN n ELSE stop[1]
        start1 == IF start0 < 0 THEN start0 + n ELSE start0
        stop1  == IF stop0 < 0 THEN stop0 + n ELSE stop0
    IN  IF ~(start1 <= stop1) THEN Raise("AssertionError")
        ELSE IF ~(0 <= start1 /\ start1 <= n) THEN Raise("AssertionError")
        ELSE IF ~(0 <= stop1 /\ stop1 <= n) THEN Raise("AssertionError")
        ELSE Ok(<<start1, stop1>>)

\* SubSeq.__init__(x, start, stop)
SubSeq_init(x, start, stop) ==
    LET r == fix_index(Len(x), start, stop)
    IN  IF r.ok THEN Ok([x |-> x, i |-> r.val[1], j |-> r.val[2]]) ELSE r

\* SubSeq.__len__
SubSeq_len(v) == v.j - v.i

\* SubSeq.__bool__
SubSeq_bool(v) == v.i < v.j

\* Bug variant of SubSeq_iter: range(self._i, self._j - 1), the last element dropped.
SubSeq_iter_short(v) == [k \in 1..(IF v.j - 1 > v.i THEN v.j - 1 - v.i ELSE 0) |-> v.x[v.i + k]]

\* SubSeq.__iter__: the elements self._x[i] for i in range(self._i, self._j)
SubSeq_iter(v) == [k \in 1..(IF v.j > v.i THEN v.j - v.i ELSE 0) |-> v.x[v.i + k]]

\* Bug variant of getitem_int: indexes the owner without the offset self._i.
getitem_int_no_offset(v, idx) == PyIndex(v.x, idx)

\* SubSeq.__getitem__ with an int
getitem_int(v, idx) == PyIndex(v.x, v.i + idx)

\* Bug variant of getitem_slice: the new bounds are not moved by self._i.
getitem_slice_no_offset(v, start, stop) ==
    LET r == fix_index(SubSeq_len(v), start, stop)
    IN  IF r.ok THEN SubSeq_init(v.x, Some(r.val[1]), Some(r.val[2])) ELSE r

\* SubSeq.__getitem__ with a slice (start, stop; no step)
getitem_slice(v, start, stop) ==
    LET r == fix_index(SubSeq_len(v), start, stop)
    IN  IF r.ok THEN SubSeq_init(v.x, Some(v.i + r.val[1]), Some(v.i + r.val[2])) ELSE r

\* Bug variant of SubSeq_eq: any() in place of all().
SubSeq_eq_any(v, w) ==
    /\ SubSeq_len(v) = SubSeq_len(w)
    /\ \E k \in 1..Min(SubSeq_len(v), SubSeq_len(w)) : SubSeq_iter(v)[k] = SubSeq_iter(w)[k]

\* Bug variant of SubSeq_eq: the zipped pairs only, without the lengths.
SubSeq_eq_zip_only(v, w) ==
    \A k \in 1..Min(SubSeq_len(v), SubSeq_len(w)) : SubSeq_iter(v)[k] = SubSeq_iter(w)[k]

\* SubSeq.__eq__: equal lengths and all zipped pairs equal
SubSeq_eq(v, w) ==
    /\ SubSeq_len(v) = SubSeq_len(w)
    /\ \A k \in 1..Min(SubSeq_len(v), SubSeq_len(w)) : SubSeq_iter(v)[k] = SubSeq_iter(w)[k]

\* SubSeq.__lt__: first differing zipped pair decides, else the shorter is smaller
SubSeq_lt(v, w) ==
    LET a == SubSeq_iter(v)
        b == SubSeq_iter(w)
        m == Min(Len(a), Len(b))
        diff == {k \in 1..m : a[k] # b[k]}
    IN  IF diff = {} THEN Len(a) < Len(b)
        ELSE LET k == CHOOSE d \in diff : \A e \in diff : d <= e
             IN  a[k] < b[k]

Owners == SeqsUpTo(1..2, MaxOwner)
OptIdx == {None} \cup {Some(k) : k \in (-MaxIdx)..MaxIdx}

NoOp == [op |-> "none"]

\* Values of the variables a machine does not use.
IdleSeq == sv = <<>> /\ sop = NoOp
IdleTree ==
    /\ s = <<>> /\ nT = <<>> /\ ni = 0 /\ mT = <<>> /\ mi = 0
    /\ curr_leaf = 0 /\ unsetUsed = FALSE /\ q = NoOp
IdleNode == inner1 = <<>> /\ inner2 = <<>>

\* A view is constructed over an owner: SubSeq(x, start, stop).
InitSeq ==
    /\ mode = "seq"
    /\ \E x \in Owners, a \in OptIdx, b \in OptIdx :
           /\ SubSeq_init(x, a, b).ok
           /\ sv = SubSeq_init(x, a, b).val
    /\ sop = NoOp
    /\ IdleTree /\ IdleNode

\* v[start:stop]: the program goes on with the new view when there is one.
SeqSlice ==
    /\ mode = "seq"
    /\ \E a \in OptIdx, b \in OptIdx :
           LET r == getitem_slice(sv, a, b)
           IN  /\ sop' = [op |-> "slice", from |-> sv, a |-> a, b |-> b, res |-> r]
               /\ sv' = IF r.ok THEN r.val ELSE sv
    /\ UNCHANGED <<mode, treeVars, nodeVars>>

\* v[idx]
SeqIndex ==
    /\ mode = "seq"
    /\ \E k \in (-MaxIdx)..MaxIdx :
           sop' = [op |-> "index", from |-> sv, a |-> k, b |-> 0, res |-> getitem_int(sv, k)]
    /\ sv' = sv
    /\ UNCHANGED <<mode, treeVars, nodeVars>>

NextSeq == SeqSlice \/ SeqIndex

SpecSeq == InitSeq /\ [][NextSeq]_vars

(***************************************************************************)
(* Part 2: the suffix-tree engine (alphabet.py and st.py of the            *)
(* repository, as st_test.py and main.py use them).                        *)
(***************************************************************************)
RawSyms == 1..NumSyms
Strings == SeqsUpTo(RawSyms, MaxLen)
Patterns == SeqsUpTo(RawSyms, MaxPat)

RECURSIVE SortedSeq(_)
SortedSeq(S) ==
    IF S = {} THEN <<>>
    ELSE LET m == CHOOSE a \in S : \A b \in S : a <= b
         IN  <<m>> \o SortedSeq(S \ {m})

\* Alphabet(x): the distinct symbols of x; each gets a dense code 1..k in
\* ascending symbol order, code 0 being reserved for the sentinel.
Alphabet(str) == {str[k] : k \in 1..Len(str)}
Code(alpha, a) == 1 + Cardinality({b \in alpha : b < a})

\* Alphabet.map(p): KeyError on a symbol that is not in the alphabet.
Alphabet_map(alpha, p) ==
    IF \A k \in 1..Len(p) : p[k] \in alpha
    THEN Ok([k \in 1..Len(p) |-> Code(alpha, p[k])])
    ELSE Raise("KeyError")

\* Alphabet.mapped_subseq(x): the mapped string as a SubSeq.
mapped_subseq(str) ==
    SubSeq_init(Alphabet_map(Alphabet(str), str).val, None, None).val

\* Alphabet.mapped_subseq_with_sentinel(x): the same with the sentinel appended.
mapped_subseq_with_sentinel(str) ==
    SubSeq_init(Append(Alphabet_map(Alphabet(str), str).val, 0), None, None).val

\* Element and slice of an edge label where the construction knows them valid.
At(v, k) == getitem_int(v, k).val
Sub(v, a, b) == getitem_slice(v, a, b).val

(* Node model.  A tree is an arena, a sequence of nodes addressed by their  *)
(* index; the root is node 1; parent and suffix_link are indices, 0 for     *)
(* None; children is the dict from the first symbol of an edge to the child.*)
Root == 1
NoKids == <<>>

Inner(edge) ==
    [leaf |-> FALSE, label |-> -1, edge |-> edge, parent |-> 0,
     children |-> NoKids, slink |-> 0]

Leaf(label, edge) ==
    [leaf |-> TRUE, label |-> label, edge |-> edge, parent |-> 0,
     children |-> NoKids, slink |-> 0]

\* Inner.add_children(child): key the child by the first symbol of its edge.
add_children(T, p, c) ==
    [T EXCEPT ![p].children = (At(T[c].edge, 0) :> c) @@ @,
              ![c].parent = p]

\* Node.__iter__: the leaf labels, children visited in ascending key order.
RECURSIVE Node_iter(_, _)
RECURSIVE IterKids(_, _, _)
IterKids(T, n, keys) ==
    IF keys = <<>> THEN <<>>
    ELSE Node_iter(T, T[n].children[Head(keys)]) \o IterKids(T, n, Tail(keys))
Node_iter(T, n) ==
    IF T[n].leaf THEN <<T[n].label>>
    ELSE IterKids(T, n, SortedSeq(DOMAIN T[n].children))

\* Node.__eq__: structural, by tag.
RECURSIVE Node_eq(_, _, _, _)
Node_eq(T1, n1, T2, n2) ==
    IF T1[n1].leaf # T2[n2].leaf THEN FALSE
    ELSE IF T1[n1].leaf
    THEN T1[n1].label = T2[n2].label /\ SubSeq_eq(T1[n1].edge, T2[n2].edge)
    ELSE /\ SubSeq_eq(T1[n1].edge, T2[n2].edge)
         /\ SortedSeq(DOMAIN T1[n1].children) = SortedSeq(DOMAIN T2[n2].children)
         /\ \A a \in DOMAIN T1[n1].children :
                Node_eq(T1, T1[n1].children[a], T2, T2[n2].children[a])

\* first_mismatch(x, y): index of the first differing pair, or the shorter length.
first_mismatch(v, w) ==
    LET a == SubSeq_iter(v)
        b == SubSeq_iter(w)
        m == Min(Len(a), Len(b))
        diff == {k \in 1..m : a[k] # b[k]}
    IN  IF diff = {} THEN m
        ELSE (CHOOSE d \in diff : \A e \in diff : d <= e) - 1

\* tree_search(n, p): the slow scan; returns the node reached, how far along
\* its edge the scan got, and the part of p scanned against that edge.
RECURSIVE tree_search(_, _, _)
tree_search(T, n, p) ==
    IF ~SubSeq_bool(p) THEN [n |-> n, j |-> 0, y |-> p]
    ELSE IF At(p, 0) \notin DOMAIN T[n].children THEN [n |-> n, j |-> 0, y |-> p]
    ELSE LET child == T[n].children[At(p, 0)]
             i == first_mismatch(T[child].edge, p)
         IN  IF i = SubSeq_len(p) \/ i < SubSeq_len(T[child].edge)
             THEN [n |-> child, j |-> i, y |-> p]
             ELSE tree_search(T, child, Sub(p, Some(i), None))

\* tree_fastsearch(n, p): skip/count; p is known to be in the tree below n.
RECURSIVE tree_fastsearch(_, _, _)
tree_fastsearch(T, n, p) ==
    LET child == T[n].children[At(p, 0)]
        i == Min(SubSeq_len(T[child].edge), SubSeq_len(p))
    IN  IF i = SubSeq_len(p) THEN [n |-> child, j |-> i, y |-> p]
        ELSE tree_fastsearch(T, child, Sub(p, Some(i), None))

\* break_edge(leaf_label, n, k, z): split the edge into n after k symbols;
\* the new Inner node is Len(T) + 1 and the new Leaf, with edge z, Len(T) + 2.
break_edge(T, leaf_label, n, k, z) ==
    LET new_n == Len(T) + 1
        new_leaf == Len(T) + 2
        T1 == Append(Append(T, Inner(Sub(T[n].edge, Some(0), Some(k)))),
                     Leaf(leaf_label, z))
        T2 == [T1 EXCEPT ![n].edge = Sub(T[n].edge, Some(k), None)]
        T3 == add_children(T2, T[n].parent, new_n)
    IN  add_children(add_children(T3, new_n, n), new_n, new_leaf)

\* Attach suffix i where the slow scan from node `from` with string w ends.
\* Returns the tree and the new leaf.
insert_at(T, from, w, i) ==
    LET r == tree_search(T, from, w)
    IN  IF r.j = 0
        THEN [T |-> add_children(Append(T, Leaf(i, r.y)), r.n, Len(T) + 1),
              leaf |-> Len(T) + 1]
        ELSE [T |-> break_edge(T, i, r.n, r.j, Sub(r.y, Some(r.j), None)),
              leaf |-> Len(T) + 2]

\* One iteration of naive_st_construction: insert suffix i from the root.
naive_insert(T, x, i) == insert_at(T, Root, Sub(x, Some(i), None), i).T

\* Length of the path label of node n.
RECURSIVE depth(_, _)
depth(T, n) == IF n = Root THEN 0 ELSE SubSeq_len(T[n].edge) + depth(T, T[n].parent)

\* One iteration of mccreight_st_construction, for suffix i >= 1.  p is the
\* head of suffix i - 1.  If p has its suffix link, slow-scan from there;
\* otherwise go to p's parent, follow its link, fast-scan p's edge label
\* from there, which gives p's link (splitting an edge if the scan ends
\* inside one), and slow-scan on.  unset: a link was followed while unset.
mccreight_step(T, cl, x, i) ==
    LET p == T[cl].parent
    IN  IF T[p].slink # 0
        THEN LET y_node == T[p].slink
                 r == insert_at(T, y_node, Sub(x, Some(i + depth(T, y_node)), None), i)
             IN  [T |-> r.T, leaf |-> r.leaf, unset |-> FALSE]
        ELSE
        LET pp == T[p].parent
            z == IF pp = Root THEN Sub(T[p].edge, Some(1), None) ELSE T[p].edge
            w == Sub(x, Some(i + depth(T, p) - 1), None)
        IN  IF T[pp].slink = 0 THEN [T |-> T, leaf |-> cl, unset |-> TRUE]
            ELSE IF ~SubSeq_bool(z)
            THEN LET T1 == [T EXCEPT ![p].slink = T[pp].slink]
                     r == insert_at(T1, T[pp].slink, w, i)
                 IN  [T |-> r.T, leaf |-> r.leaf, unset |-> FALSE]
            ELSE LET f == tree_fastsearch(T, T[pp].slink, z)
                 IN  IF f.j < SubSeq_len(T[f.n].edge)
                     THEN [T |-> [break_edge(T, i, f.n, f.j, w) EXCEPT ![p].slink = Len(T) + 1],
                           leaf |-> Len(T) + 2, unset |-> FALSE]
                     ELSE LET T1 == [T EXCEPT ![p].slink = f.n]
                              r == insert_at(T1, f.n, w, i)
                          IN  [T |-> r.T, leaf |-> r.leaf, unset |-> FALSE]

\* SuffixTree.search(p): the labels of the leaves below the point where p ends.
search(T, alpha, p) ==
    LET m == Alphabet_map(alpha, p)
    IN  IF ~m.ok THEN <<>>
        ELSE LET r == tree_search(T, Root, SubSeq_init(m.val, None, None).val)
             IN  IF r.j = SubSeq_len(r.y) THEN Node_iter(T, r.n) ELSE <<>>

\* SuffixTree.__contains__(p)
contains(T, alpha, p) ==
    LET m == Alphabet_map(alpha, p)
    IN  IF ~m.ok THEN FALSE
        ELSE LET r == tree_search(T, Root, SubSeq_init(m.val, None, None).val)
             IN  r.j = SubSeq_len(r.y)

\* The mapped input of the tree machine and its length with the sentinel.
X == mapped_subseq_with_sentinel(s)
N == Len(s) + 1

InitTree ==
    /\ mode = "tree"
    /\ s \in Strings
    /\ nT = <<Inner(Sub(mapped_subseq_with_sentinel(s), Some(0), Some(0)))>>
    /\ ni = 0
    /\ mT = <<[Inner(Sub(mapped_subseq_with_sentinel(s), Some(0), Some(0))) EXCEPT !.slink = Root]>>
    /\ mi = 0
    /\ curr_leaf = 0
    /\ unsetUsed = FALSE
    /\ q = NoOp
    /\ IdleSeq /\ IdleNode

\* naive_st_construction: the loop body for suffix ni.
NaiveInsert ==
    /\ mode = "tree"
    /\ ni < N
    /\ nT' = naive_insert(nT, X, ni)
    /\ ni' = ni + 1
    /\ UNCHANGED <<s, mT, mi, curr_leaf, unsetUsed, q>>
    /\ UNCHANGED <<mode, seqVars, nodeVars>>

\* mccreight_st_construction: the first leaf, the whole string under the root.
McCreightFirst ==
    /\ mode = "tree"
    /\ mi = 0
    /\ mT' = add_children(Append(mT, Leaf(0, X)), Root, Len(mT) + 1)
    /\ curr_leaf' = Len(mT) + 1
    /\ mi' = 1
    /\ UNCHANGED <<s, nT, ni, unsetUsed, q>>
    /\ UNCHANGED <<mode, seqVars, nodeVars>>

\* mccreight_st_construction: the loop body for suffix mi.
McCreightInsert ==
    /\ mode = "tree"
    /\ 0 < mi /\ mi < N
    /\ LET r == mccreight_step(mT, curr_leaf, X, mi)
       IN  /\ mT' = r.T
           /\ curr_leaf' = r.leaf
           /\ unsetUsed' = (unsetUsed \/ r.unset)
    /\ mi' = mi + 1
    /\ UNCHANGED <<s, nT, ni, q>>
    /\ UNCHANGED <<mode, seqVars, nodeVars>>

\* A read is looked up in both finished trees: search and containment of p.
Query ==
    /\ mode = "tree"
    /\ ni = N /\ mi = N
    /\ q.op = "none"
    /\ \E p \in Patterns :
           q' = [op |-> "query", p |-> p,
                 naive |-> search(nT, Alphabet(s), p),
                 mccreight |-> search(mT, Alphabet(s), p),
                 naive_in |-> contains(nT, Alphabet(s), p),
                 mccreight_in |-> contains(mT, Alphabet(s), p)]
    /\ UNCHANGED <<s, nT, ni, mT, mi, curr_leaf, unsetUsed>>
    /\ UNCHANGED <<mode, seqVars, nodeVars>>

\* The driver has written the matches of the read out and goes on to the next.
Report ==
    /\ mode = "tree"
    /\ q.op = "query"
    /\ q' = NoOp
    /\ UNCHANGED <<s, nT, ni, mT, mi, curr_leaf, unsetUsed>>
    /\ UNCHANGED <<mode, seqVars, nodeVars>>

Next == NaiveInsert \/ McCreightFirst \/ McCreightInsert \/ Query \/ Report

Spec == InitTree /\ [][Next]_vars

(***************************************************************************)
(* The node machine: two Inner nodes, each its own arena with the node at   *)
(* Root, get Leaf children added one at a time, as test_node_comparison     *)
(* does with the mapped strings "foo" and "bar".                            *)
(***************************************************************************)
MaxAdds == 4       \* children added to the two nodes together

Foo == mapped_subseq(<<2, 3, 3>>)
Bar == mapped_subseq(<<1, 0, 4>>)

RootEdges == {Foo, Bar}
\* Leaf(0, x), Leaf(1, x), Leaf(0, y) of the test, and two leaves whose edges
\* are different views of the same one symbol.
Leaves ==
    {Leaf(0, Foo), Leaf(1, Foo), Leaf(0, Bar),
     Leaf(0, Sub(Foo, Some(2), Some(3))), Leaf(0, Sub(Bar, Some(0), Some(1)))}

InitNode ==
    /\ mode = "node"
    /\ \E e1 \in RootEdges, e2 \in RootEdges :
           /\ inner1 = <<Inner(e1)>>
           /\ inner2 = <<Inner(e2)>>
    /\ IdleSeq /\ IdleTree

\* inner1.add_children(leaf)
AddChildren1 ==
    /\ mode = "node"
    /\ Len(inner1) + Len(inner2) < 2 + MaxAdds
    /\ \E leaf \in Leaves :
           inner1' = add_children(Append(inner1, leaf), Root, Len(inner1) + 1)
    /\ UNCHANGED inner2
    /\ UNCHANGED <<mode, seqVars, treeVars>>

\* inner2.add_children(leaf)
AddChildren2 ==
    /\ mode = "node"
    /\ Len(inner1) + Len(inner2) < 2 + MaxAdds
    /\ \E leaf \in Leaves :
           inner2' = add_children(Append(inner2, leaf), Root, Len(inner2) + 1)
    /\ UNCHANGED inner1
    /\ UNCHANGED <<mode, seqVars, treeVars>>

NextNode == AddChildren1 \/ AddChildren2

SpecNode == InitNode /\ [][NextNode]_vars

(***************************************************************************)
(* Reference notions, stated on the raw string s without any tree.         *)
(***************************************************************************)
\* s with the sentinel, as symbols: the sentinel 0 is below every raw symbol.
Sentinelled == Append(s, 0)

\* Suffix a of s$ is lexicographically below suffix b (0-based starts).
SuffixLess(a, b) ==
    \E k \in 0..(N - 1) :
        /\ a + k < N /\ b + k < N
        /\ \A m \in 0..(k - 1) : Sentinelled[a + m + 1] = Sentinelled[b + m + 1]
        /\ Sentinelled[a + k + 1] < Sentinelled[b + k + 1]

\* The suffix array of s$: position r holds the suffix with r smaller suffixes.
SuffixArray ==
    [r \in 1..N |->
        CHOOSE a \in 0..(N - 1) :
            Cardinality({b \in 0..(N - 1) : SuffixLess(b, a)}) = r - 1]

\* Brute force: the starts at which p occurs in s (every start for empty p).
Occurrences(p) ==
    {a \in 0..Len(s) :
        /\ a + Len(p) <= Len(s)
        /\ \A k \in 1..Len(p) : s[a + k] = p[k]}

Range(f) == {f[k] : k \in DOMAIN f}

InnerNodes(T) == {n \in 1..Len(T) : ~T[n].leaf}
LeafNodes(T) == {n \in 1..Len(T) : T[n].leaf}

\* The edge labels from the root down to node n, concatenated.
RECURSIVE PathLabel(_, _)
PathLabel(T, n) ==
    IF n = Root \/ T[n].parent = 0 THEN <<>>
    ELSE PathLabel(T, T[n].parent) \o SubSeq_iter(T[n].edge)

\* The mapped sequence from position a (0-based) to its end.
MappedSuffix(a) == SubSeq(X.x, a + 1, Len(X.x))

Built == mode = "tree" /\ ni = N /\ mi = N
Queried == mode = "tree" /\ q.op = "query"

(***************************************************************************)
(* Claims.                                                                 *)
(***************************************************************************)

C2_SearchFindsOccurrences ==
    Queried =>
        /\ Range(q.naive) = Occurrences(q.p)
        /\ Range(q.mccreight) = Occurrences(q.p)

\* C2 witness: a non-empty pattern occurring at two or more places was found.
C2_Witness ==
    /\ Queried /\ Len(q.p) >= 2
    /\ Cardinality(Occurrences(q.p)) >= 2
    /\ Range(q.naive) = Occurrences(q.p)

\* C3: a finished tree of either construction has exactly n + 1 leaves with
\* pairwise distinct suffix_start values covering 0..n; the empty pattern
\* yields each of 0..n exactly once; the tree of the empty string is a
\* single leaf 0 directly under the root.
C3_EveryLeafOnce ==
    /\ Built =>
        /\ \A T \in {nT, mT} :
            /\ Cardinality(LeafNodes(T)) = N
            /\ Len(Node_iter(T, Root)) = N
            /\ Range(Node_iter(T, Root)) = 0..(N - 1)
            /\ (s = <<>> => /\ Len(T) = 2 /\ T[2].leaf /\ T[2].label = 0
                            /\ T[2].parent = Root /\ InnerNodes(T) = {Root})
    /\ (Queried /\ q.p = <<>>) =>
        /\ Len(q.naive) = N /\ Range(q.naive) = 0..(N - 1)
        /\ Len(q.mccreight) = N /\ Range(q.mccreight) = 0..(N - 1)

\* C3 witness: the empty pattern was searched in the trees of a string of
\* full length and yielded n + 1 positions.
C3_Witness ==
    /\ Queried /\ q.p = <<>> /\ Len(s) = MaxLen
    /\ Len(q.naive) = N /\ Len(q.mccreight) = N

\* C4: iterating the root of a finished tree of either construction yields
\* the suffix starts in the order of the suffix array of s$.
C4_LeavesInSuffixOrder ==
    Built =>
        /\ Node_iter(nT, Root) = SuffixArray
        /\ Node_iter(mT, Root) = SuffixArray

\* C4 witness: a finished tree whose leaf order is the suffix array and is
\* neither ascending nor descending in suffix start.
C4_Witness ==
    /\ Built /\ Len(s) = MaxLen
    /\ Node_iter(mT, Root) = SuffixArray
    /\ \E k \in 1..(N - 1) : SuffixArray[k] < SuffixArray[k + 1]
    /\ \E k \in 2..(N - 1) : SuffixArray[k] > SuffixArray[k + 1]

\* C5: containment is true exactly for the substrings of s, on both trees;
\* a pattern that is no substring (a symbol outside the alphabet included)
\* gives false and an empty search result, never an error.
C5_ContainsIffSubstring ==
    Queried =>
        /\ q.naive_in = (Occurrences(q.p) # {})
        /\ q.mccreight_in = (Occurrences(q.p) # {})
        /\ (Occurrences(q.p) = {} => q.naive = <<>> /\ q.mccreight = <<>>)

\* C5 witness: a pattern with a symbol that does not occur in s was asked
\* for and answered with false.
C5_Witness ==
    /\ Queried /\ s # <<>>
    /\ \E k \in 1..Len(q.p) : q.p[k] \notin Alphabet(s)
    /\ ~q.naive_in /\ ~q.mccreight_in

\* Every set suffix link of T leads from the node spelling a.w to the Inner
\* node spelling w (the root's link to the root).
LinksCorrect(T) ==
    \A n \in InnerNodes(T) :
        T[n].slink # 0 =>
            /\ T[n].slink \in InnerNodes(T)
            /\ IF n = Root THEN T[n].slink = Root
               ELSE PathLabel(T, T[n].slink) = Tail(PathLabel(T, n))

WellFormed(T, k) ==
    /\ \A n \in InnerNodes(T) \ {Root} : Cardinality(DOMAIN T[n].children) >= 2
    /\ \A n \in LeafNodes(T) : DOMAIN T[n].children = {}
    /\ \A n \in 1..Len(T) : \A a \in DOMAIN T[n].children :
          LET c == T[n].children[a]
          IN  /\ c \in 2..Len(T)
              /\ T[c].parent = n
              /\ T[c].edge.i < T[c].edge.j
              /\ T[c].edge.x[T[c].edge.i + 1] = a
              /\ \A b \in DOMAIN T[n].children : b # a => T[n].children[b] # c
    /\ \A c \in 2..Len(T) :
          /\ T[c].parent \in InnerNodes(T)
          /\ \E a \in DOMAIN T[T[c].parent].children : T[T[c].parent].children[a] = c
    /\ \A a \in 0..(k - 1) :
          /\ Cardinality({n \in LeafNodes(T) : T[n].label = a}) = 1
          /\ \A n \in LeafNodes(T) : T[n].label = a => PathLabel(T, n) = MappedSuffix(a)
    /\ \A n \in LeafNodes(T) : T[n].label \in 0..(k - 1)

\* C9: after every completed insertion, in either construction, the tree is
\* a well-formed compressed trie of the suffixes inserted so far.
C9_WellFormedAfterEveryInsertion ==
    mode = "tree" => WellFormed(nT, ni) /\ WellFormed(mT, mi)

\* C9 witness: both constructions are part-way through, and each has split
\* an edge already.
C9_Witness ==
    /\ mode = "tree" /\ 1 < ni /\ ni < N /\ 1 < mi /\ mi < N
    /\ Cardinality(InnerNodes(nT)) >= 2 /\ Cardinality(InnerNodes(mT)) >= 2
    /\ WellFormed(nT, ni) /\ WellFormed(mT, mi)

\* What an Inner node of the node machine holds: for each key, the child's
\* suffix_start and the symbols of its edge.
Content(T) ==
    {<<a, T[T[Root].children[a]].label, SubSeq_iter(T[T[Root].children[a]].edge)>> :
        a \in DOMAIN T[Root].children}

\* C6: two Inner nodes are equal exactly when the symbols of their edges
\* agree and they hold the same key -> (suffix_start, edge symbols)
\* children, in whatever order the children were added; two Leaf nodes are
\* equal exactly when suffix_start and the symbols of their edges agree; a
\* Leaf never equals an Inner node.
C6_NodeEqualityIsStructural ==
    mode = "node" =>
        /\ Node_eq(inner1, Root, inner2, Root) <=>
              /\ SubSeq_iter(inner1[Root].edge) = SubSeq_iter(inner2[Root].edge)
              /\ Content(inner1) = Content(inner2)
        /\ \A a \in 2..Len(inner1), b \in 2..Len(inner2) :
              /\ Node_eq(inner1, a, inner2, b) <=>
                    /\ inner1[a].label = inner2[b].label
                    /\ SubSeq_iter(inner1[a].edge) = SubSeq_iter(inner2[b].edge)
              /\ ~Node_eq(inner1, a, inner2, Root)

\* C6 witness: two equal Inner nodes with two children each, added in
\* opposite orders, whose child edges are different views of equal content.
C6_Witness ==
    /\ mode = "node"
    /\ DOMAIN inner1[Root].children = {1, 2}
    /\ DOMAIN inner2[Root].children = {1, 2}
    /\ inner1[Root].children[1] > inner1[Root].children[2]
    /\ inner2[Root].children[1] < inner2[Root].children[2]
    /\ inner1[inner1[Root].children[2]].edge # inner2[inner2[Root].children[2]].edge
    /\ Node_eq(inner1, Root, inner2, Root)

\* A slice bound as _fix_index reads it: None is the default, a negative
\* bound counts from the end of the view.
Adjusted(b, default, n) ==
    IF b = None THEN default ELSE IF b[1] < 0 THEN b[1] + n ELSE b[1]

\* A slice bound taken as written: None is the default.
AsWritten(b, default) == IF b = None THEN default ELSE b[1]

\* What every slice keeps, whatever its bounds: the bounds of the current
\* view lie in the owner; a slice that succeeds shares the owner, lies
\* inside the view it was cut from and holds that view's elements from lo
\* to hi - 1; a slice that fails produces no view.
SliceKeeps(lo, hi) ==
    /\ 0 <= sv.i /\ sv.i <= sv.j /\ sv.j <= Len(sv.x)
    /\ sop.op = "slice" =>
          IF sop.res.ok
          THEN /\ sv = sop.res.val
               /\ sv.x = sop.from.x
               /\ sop.from.i <= sv.i /\ sv.j <= sop.from.j
               /\ 0 <= lo /\ lo <= hi /\ hi <= SubSeq_len(sop.from)
               /\ SubSeq_iter(sv) = SubSeq(SubSeq_iter(sop.from), lo + 1, hi)
          ELSE sv = sop.from

\* Slicing a slice: v[a:b][c:d] is v[a+c:a+d].
SliceOfSlice ==
    \A a \in 0..MaxIdx, b \in 0..MaxIdx, c \in 0..MaxIdx, d \in 0..MaxIdx :
        (a <= b /\ b <= SubSeq_len(sv) /\ c <= d /\ d <= b - a) =>
            /\ getitem_slice(sv, Some(a), Some(b)).ok
            /\ getitem_slice(getitem_slice(sv, Some(a), Some(b)).val, Some(c), Some(d))
                 = getitem_slice(sv, Some(a + c), Some(a + d))
            /\ getitem_slice(sv, Some(a + c), Some(a + d)).ok

\* C7 as stated: an index outside [0, len(view)) raises, so nothing outside
\* the view is ever returned.
C7_IndexIsBoundsChecked ==
    (mode = "seq" /\ sop.op = "index") =>
        (sop.a \notin 0..(SubSeq_len(sop.from) - 1) => ~sop.res.ok)

\* C10 as stated: with the bounds taken as written, a slice succeeds exactly
\* when 0 <= start <= stop <= len(view), and fails otherwise.
C10_SliceFailsOutsideView ==
    mode = "seq" =>
        LET n == IF sop.op = "slice" THEN SubSeq_len(sop.from) ELSE 0
            lo == IF sop.op = "slice" THEN AsWritten(sop.a, 0) ELSE 0
            hi == IF sop.op = "slice" THEN AsWritten(sop.b, n) ELSE 0
        IN  /\ SliceKeeps(lo, hi)
            /\ SliceOfSlice
            /\ sop.op = "slice" => (sop.res.ok <=> (0 <= lo /\ lo <= hi /\ hi <= n))

\* C10 amended: the same with each bound read as _fix_index reads it, a
\* negative bound b standing for b + len(view): the slice succeeds exactly
\* when the bounds so read satisfy 0 <= start <= stop <= len(view).
C10_SliceFailsOutsideAdjusted ==
    mode = "seq" =>
        LET n == IF sop.op = "slice" THEN SubSeq_len(sop.from) ELSE 0
            lo == IF sop.op = "slice" THEN Adjusted(sop.a, 0, n) ELSE 0
            hi == IF sop.op = "slice" THEN Adjusted(sop.b, n, n) ELSE 0
        IN  /\ SliceKeeps(lo, hi)
            /\ SliceOfSlice
            /\ sop.op = "slice" => (sop.res.ok <=> (0 <= lo /\ lo <= hi /\ hi <= n))

\* C10 witness: a view that does not start at its owner's start was sliced
\* with a negative bound and gave a proper, non-empty part of it.
C10_Witness ==
    /\ mode = "seq" /\ sop.op = "slice" /\ sop.res.ok
    /\ sop.from.i > 0
    /\ sop.a # None /\ sop.a[1] < 0
    /\ 0 < SubSeq_len(sv) /\ SubSeq_len(sv) < SubSeq_len(sop.from)

====
